---- MODULE Spec2Model ----
(***************************************************************************)
(* Bank-Campaign-Success-Prediction: the inference-serving core            *)
(* (src/src/model_server.py, class BankMarketingPredictor and the module   *)
(* global `predictor`).                                                    *)
(*                                                                         *)
(* The trained pipeline is an opaque artifact read from disk by            *)
(* joblib.load; it is modelled as a pure function of the table it is given *)
(* (what it raises on, what it returns per row), chosen from a small set   *)
(* of artifacts when the module is imported.  Probabilities are written in *)
(* hundredths (0.30 is 30).                                                *)
(***************************************************************************)
EXTENDS Integers, Sequences, FiniteSets, TLC

VARIABLES
    pipeline,        \* self.pipeline: None or the loaded artifact
    pipeline_path,   \* self.pipeline_path
    predictor,       \* the module global: "unset", "bound" or "import_failed"
    loadError,       \* the exception that left _load_pipeline, "none" if none did
    loadAttempts,    \* how many times joblib.load has been called
    calls,           \* per caller: the frame of its predict / predict_batch call
    http             \* per caller: its request to the /predict/batch endpoint

vars == <<pipeline, pipeline_path, predictor, loadError, loadAttempts, calls,
          http>>

----------------------------------------------------------------------------
\* Bounds of the model.

\* Longest table (number of rows) handed to predict_batch.
MaxRows == 2

\* Concurrent callers of the shared predictor.
Callers == {"a", "b"}

----------------------------------------------------------------------------
\* Inputs.

\* The field names the pipeline was trained on (the request example).
Schema ==
    {"age", "occupation", "marital_status", "education", "has_credit",
     "housing_loan", "personal_loan", "contact_mode", "month", "week_day",
     "last_contact_duration", "contacts_per_campaign", "N_last_days",
     "nb_previous_contact", "previous_outcome", "emp_var_rate",
     "cons_price_index", "cons_conf_index", "euri_3_month", "nb_employees"}

\* What a row holds in its fields, abstracted to the one value the pipeline's
\* answer depends on.
Values == {0, 1}

\* The rows callers send: two well-formed ones, one without "age", and one
\* with a field the schema does not know.
Rows ==
    {[fields |-> Schema, v |-> 0],
     [fields |-> Schema, v |-> 1],
     [fields |-> Schema \ {"age"}, v |-> 0],
     [fields |-> Schema \cup {"note"}, v |-> 1]}

RECURSIVE TablesOfLen(_)
TablesOfLen(n) ==
    IF n = 0 THEN {<<>>}
    ELSE {Append(t, r) : t \in TablesOfLen(n - 1), r \in Rows}

\* Every DataFrame of at most MaxRows rows, the empty one included.
Tables == UNION {TablesOfLen(n) : n \in 0..MaxRows}

MissingField(row) == Schema \ row.fields # {}
ExtraField(row) == row.fields \ Schema # {}
WellFormed(row) == row.fields = Schema
Malformed(df) == \E i \in 1..Len(df) : ~WellFormed(df[i])

----------------------------------------------------------------------------
\* The artifact on disk and what joblib.load does with it.

None == [name |-> "None"]

\* A random-forest pipeline with a column transformer: needs every trained
\* column, ignores others, refuses an empty table.
ArtForest ==
    [name |-> "forest", rejectsMissing |-> TRUE, rejectsExtra |-> FALSE,
     rejectsEmpty |-> TRUE, rejectsValues |-> {}, hasProba |-> TRUE,
     exc |-> "ValueError",
     out |-> [v \in Values |->
                IF v = 0 THEN [c |-> 0, p |-> <<82, 18>>]
                ELSE [c |-> 1, p |-> <<30, 70>>]]]

\* A pipeline that also refuses unknown columns and a category it has not seen.
ArtStrict ==
    [name |-> "strict", rejectsMissing |-> TRUE, rejectsExtra |-> TRUE,
     rejectsEmpty |-> TRUE, rejectsValues |-> {1}, hasProba |-> TRUE,
     exc |-> "ValueError",
     out |-> [v \in Values |->
                IF v = 0 THEN [c |-> 0, p |-> <<50, 50>>]
                ELSE [c |-> 1, p |-> <<40, 60>>]]]

\* A stub that answers whatever it is given, the empty table included.
ArtStub ==
    [name |-> "stub", rejectsMissing |-> FALSE, rejectsExtra |-> FALSE,
     rejectsEmpty |-> FALSE, rejectsValues |-> {}, hasProba |-> TRUE,
     exc |-> "ValueError",
     out |-> [v \in Values |->
                IF v = 0 THEN [c |-> 1, p |-> <<30, 70>>]
                ELSE [c |-> 0, p |-> <<30, 70>>]]]

\* A pipeline whose final estimator has no predict_proba.
ArtNoProba ==
    [name |-> "noproba", rejectsMissing |-> TRUE, rejectsExtra |-> FALSE,
     rejectsEmpty |-> FALSE, rejectsValues |-> {}, hasProba |-> FALSE,
     exc |-> "KeyError",
     out |-> [v \in Values |->
                IF v = 0 THEN [c |-> 0, p |-> <<82, 18>>]
                ELSE [c |-> 1, p |-> <<30, 70>>]]]

Artifacts == {ArtForest, ArtStrict, ArtStub, ArtNoProba}

\* What may be found at pipeline_path.
NoFile == [name |-> "no file"]
Corrupt == [name |-> "corrupt"]
DiskContents == Artifacts \cup {NoFile, Corrupt}

\* joblib.load(path): the exception it raises, "none" when it returns.
JoblibLoadRaises(onDisk) ==
    IF onDisk = NoFile THEN "FileNotFoundError"
    ELSE IF onDisk = Corrupt THEN "UnpicklingError"
    ELSE "none"

\* Whether the transform + estimator raise on this table.
PipelineRejects(art, df) ==
    \/ df = <<>> /\ art.rejectsEmpty
    \/ \E i \in 1..Len(df) :
          \/ art.rejectsMissing /\ MissingField(df[i])
          \/ art.rejectsExtra /\ ExtraField(df[i])
          \/ df[i].v \in art.rejectsValues

\* pipeline.predict(df): [exc, value], exc "none" when it returns the class
\* index of every row.
PipelinePredict(art, df) ==
    IF art = None
    THEN [exc |-> "AttributeError", value |-> <<>>, invoked |-> FALSE]
    ELSE IF PipelineRejects(art, df)
    THEN [exc |-> art.exc, value |-> <<>>, invoked |-> TRUE]
    ELSE [exc |-> "none", invoked |-> TRUE,
          value |-> [i \in 1..Len(df) |-> art.out[df[i].v].c]]

\* pipeline.predict_proba(df): [exc, value], the probability vector of every row.
PipelinePredictProba(art, df) ==
    IF art = None
    THEN [exc |-> "AttributeError", value |-> <<>>, invoked |-> FALSE]
    ELSE IF PipelineRejects(art, df)
    THEN [exc |-> art.exc, value |-> <<>>, invoked |-> TRUE]
    ELSE IF ~art.hasProba
    THEN [exc |-> "AttributeError", value |-> <<>>, invoked |-> TRUE]
    ELSE [exc |-> "none", invoked |-> TRUE,
          value |-> [i \in 1..Len(df) |-> art.out[df[i].v].p]]

----------------------------------------------------------------------------
\* The result contract.

\* Variant: the confidence is taken to be the probability of "yes".
MaxIsLast(p) == p[2]

\* max(prediction_proba), np.max(prediction_probas, axis=1): the larger entry
\* of a two-entry probability vector.
Max2(p) == IF p[1] >= p[2] THEN p[1] ELSE p[2]

\* The dict that predict returns for one class index and probability vector.
PredictResult(prediction, prediction_proba) ==
    [prediction |-> prediction,
     prediction_label |-> IF prediction = 1 THEN "yes" ELSE "no",
     probability_no |-> prediction_proba[1],
     probability_yes |-> prediction_proba[2],
     confidence |-> Max2(prediction_proba)]

\* Variant: the result columns are filled from the arrays read back to front.
BatchResultsReversed(input_df, predictions, prediction_probas) ==
    LET n == Len(input_df) IN
    [i \in 1..n |->
        [input |-> input_df[i],
         prediction |-> predictions[n + 1 - i],
         prediction_label |-> IF predictions[n + 1 - i] = 1 THEN "yes" ELSE "no",
         probability_no |-> prediction_probas[n + 1 - i][1],
         probability_yes |-> prediction_probas[n + 1 - i][2],
         confidence |-> Max2(prediction_probas[n + 1 - i])]]

\* The results DataFrame of predict_batch: a copy of the input with the five
\* result columns added, each filled positionally from the pipeline's arrays.
BatchResults(input_df, predictions, prediction_probas) ==
    [i \in 1..Len(input_df) |->
        [input |-> input_df[i],
         prediction |-> predictions[i],
         prediction_label |-> IF predictions[i] = 1 THEN "yes" ELSE "no",
         probability_no |-> prediction_probas[i][1],
         probability_yes |-> prediction_probas[i][2],
         confidence |-> Max2(prediction_probas[i])]]

----------------------------------------------------------------------------
\* State.

DefaultPath == "models/best_rf_pipeline.pkl"

\* A caller that is not inside a call.
Idle ==
    [pc |-> "idle", op |-> "none", df |-> <<>>, predictions |-> <<>>,
     probas |-> <<>>, result |-> <<>>, error |-> "none", logged |-> "none",
     nPredict |-> 0, nProba |-> 0, afterFailure |-> FALSE]

\* The lifecycle state of the serving component, read off the program state.
State ==
    IF pipeline # None THEN "LOADED"
    ELSE IF loadError # "none" THEN "FAILED"
    ELSE "UNLOADED"

\* No request of this caller is with the /predict/batch endpoint.
NoRequest ==
    [pc |-> "none", filename |-> <<>>, body |-> [kind |-> "none", table |-> <<>>],
     called |-> FALSE, caught |-> "none", status_code |-> 0, detail |-> <<>>,
     total_samples |-> 0, predictions |-> <<>>]

Init ==
    /\ http = [c \in Callers |-> NoRequest]
    /\ pipeline = None
    /\ pipeline_path = "unset"
    /\ predictor = "unset"
    /\ loadError = "none"
    /\ loadAttempts = 0
    /\ calls = [c \in Callers |-> Idle]

\* Variant: the predictor is built again on a later import or request.
CanConstructAgain == TRUE

\* The module-level statement that builds the predictor runs when the module is
\* first imported, and only then.
CanConstruct == predictor = "unset"

\* Variant: _load_pipeline logs the error and returns, so the constructor
\* returns and the global is bound to a predictor without a pipeline.
ConstructSwallowing(onDisk) ==
    /\ CanConstruct
    /\ pipeline_path' = DefaultPath
    /\ loadAttempts' = loadAttempts + 1
    /\ pipeline' = IF JoblibLoadRaises(onDisk) = "none" THEN onDisk ELSE None
    /\ loadError' = JoblibLoadRaises(onDisk)
    /\ predictor' = "bound"
    /\ UNCHANGED calls

\* predictor = BankMarketingPredictor(): __init__ sets the path, clears the
\* pipeline and calls _load_pipeline, which re-raises whatever joblib.load
\* raised; the global is bound only when the constructor returns.
Construct(onDisk) ==
    /\ CanConstruct
    /\ pipeline_path' = DefaultPath
    /\ loadAttempts' = loadAttempts + 1
    /\ IF JoblibLoadRaises(onDisk) = "none"
       THEN /\ pipeline' = onDisk
            /\ loadError' = "none"
            /\ predictor' = "bound"
       ELSE /\ pipeline' = None
            /\ loadError' = JoblibLoadRaises(onDisk)
            /\ predictor' = "import_failed"
    /\ UNCHANGED calls

\* Callers reach predict and predict_batch through the imported global, which
\* exists only when the import succeeded.
CanCall(c) ==
    /\ predictor = "bound"
    /\ calls[c].pc = "idle"

\* Variant: the except clause logs the error and returns nothing instead of
\* re-raising.
Swallowed(frame, e, message) ==
    [frame EXCEPT !.pc = "returned", !.error = "none", !.logged = message,
                  !.result = <<>>]

\* Variant: the except clause hands back the rows computed so far.
RaisedWithPartial(frame, e, message) ==
    [frame EXCEPT !.pc = "raised", !.error = e, !.logged = message,
                  !.result = frame.predictions]

\* The except clause of predict / predict_batch: log the error, re-raise the
\* exception that was caught (a bare `raise`).  No result is returned.
Raised(frame, e, message) ==
    [frame EXCEPT !.pc = "raised", !.error = e, !.logged = message,
                  !.result = <<>>]

\* The table the pipeline's predict is given.
PredictInput(c) == calls[c].df

\* Variant: the table is kept on the shared predictor, where another call in
\* flight on a table of the same length has overwritten it.
ProbaInputShared(c) ==
    LET others == {d \in Callers :
                      /\ d # c
                      /\ calls[d].pc # "idle"
                      /\ Len(calls[d].df) = Len(calls[c].df)}
    IN  IF others = {} THEN calls[c].df
        ELSE calls[CHOOSE d \in others : TRUE].df

\* The table the pipeline's predict_proba is given.
ProbaInput(c) == calls[c].df

\* Variant: the pipeline's predict is invoked once for every row of the table.
InvokePredictPerRow(c, message) ==
    LET f == calls[c]
        r == PipelinePredict(pipeline, PredictInput(c))
        g == [f EXCEPT !.nPredict = @ + Len(f.df)]
    IN  /\ f.pc = "entered"
        /\ IF r.exc # "none"
           THEN calls' = [calls EXCEPT ![c] =
                            [g EXCEPT !.pc = "raised", !.error = r.exc,
                                      !.logged = message]]
           ELSE calls' = [calls EXCEPT ![c] =
                                [g EXCEPT !.pc = "predicted",
                                          !.predictions = r.value]]
        /\ UNCHANGED <<pipeline, pipeline_path, predictor, loadError,
                       loadAttempts>>

\* self.pipeline.predict(df), in predict and in predict_batch.
InvokePredict(c, message) ==
    LET f == calls[c]
        r == PipelinePredict(pipeline, PredictInput(c))
        g == [f EXCEPT !.nPredict = IF r.invoked THEN @ + 1 ELSE @]
    IN  /\ f.pc = "entered"
        /\ IF r.exc # "none"
           THEN calls' = [calls EXCEPT ![c] = Raised(g, r.exc, message)]
           ELSE calls' = [calls EXCEPT ![c] =
                                [g EXCEPT !.pc = "predicted",
                                          !.predictions = r.value]]
        /\ UNCHANGED <<pipeline, pipeline_path, predictor, loadError,
                       loadAttempts>>

\* self.pipeline.predict_proba(df) and the building of the return value, in
\* predict and in predict_batch.
InvokeProba(c, message) ==
    LET f == calls[c]
        r == PipelinePredictProba(pipeline, ProbaInput(c))
        g == [f EXCEPT !.nProba = IF r.invoked THEN @ + 1 ELSE @]
    IN  /\ f.pc = "predicted"
        /\ IF r.exc # "none"
           THEN calls' = [calls EXCEPT ![c] = Raised(g, r.exc, message)]
           ELSE calls' = [calls EXCEPT ![c] =
                                [g EXCEPT
                                   !.pc = "returned",
                                   !.probas = r.value,
                                   !.result =
                                      IF f.op = "predict"
                                      THEN <<PredictResult(f.predictions[1],
                                                           r.value[1])>>
                                      ELSE BatchResults(f.df, f.predictions,
                                                        r.value)]]
        /\ UNCHANGED <<pipeline, pipeline_path, predictor, loadError,
                       loadAttempts>>

\* Whether some caller has just had its call fail (the exception is on its
\* way up and the next call is entered after it).
FailureSeen == \E d \in Callers : calls[d].pc = "raised"

\* Variant: the argument is checked against the schema on entry and a
\* malformed one is refused before the pipeline is reached.
EnterValidating(c, op, df) ==
    /\ CanCall(c)
    /\ calls' = [calls EXCEPT ![c] =
                    IF Malformed(df)
                    THEN [Idle EXCEPT !.pc = "raised", !.op = op, !.df = df,
                                      !.error = "ValidationError",
                                      !.afterFailure = FailureSeen]
                    ELSE [Idle EXCEPT !.pc = "entered", !.op = op, !.df = df,
                                      !.afterFailure = FailureSeen]]
    /\ UNCHANGED <<pipeline, pipeline_path, predictor, loadError,
                   loadAttempts>>

\* A call is entered: its frame starts empty, with the caller's argument.
Enter(c, op, df) ==
    /\ CanCall(c)
    /\ calls' = [calls EXCEPT ![c] =
                    [Idle EXCEPT !.pc = "entered", !.op = op, !.df = df,
                                 !.afterFailure = FailureSeen]]
    /\ UNCHANGED <<pipeline, pipeline_path, predictor, loadError,
                   loadAttempts>>

\* predict(input_data), entry: the record becomes a one-row DataFrame.  The
\* record is not looked at.
PredictEnter(c, input_data) == Enter(c, "predict", <<input_data>>)

\* predict: prediction = self.pipeline.predict(df)[0]
PredictInvoke(c) ==
    /\ calls[c].op = "predict"
    /\ InvokePredict(c, "Error making prediction")

\* predict: prediction_proba = self.pipeline.predict_proba(df)[0]; return {...}
PredictProba(c) ==
    /\ calls[c].op = "predict"
    /\ InvokeProba(c, "Error making prediction")

\* Variant: predict_batch refuses a table of zero rows on entry.
BatchEnterChecked(c, input_df) ==
    /\ CanCall(c)
    /\ calls' = [calls EXCEPT ![c] =
                    IF input_df = <<>>
                    THEN [Idle EXCEPT !.pc = "raised", !.op = "predict_batch",
                                      !.error = "ValidationError",
                                      !.afterFailure = FailureSeen]
                    ELSE [Idle EXCEPT !.pc = "entered", !.op = "predict_batch",
                                      !.df = input_df,
                                      !.afterFailure = FailureSeen]]
    /\ UNCHANGED <<pipeline, pipeline_path, predictor, loadError,
                   loadAttempts>>

\* predict_batch(input_df), entry: the table is logged and not looked at.
BatchEnter(c, input_df) == Enter(c, "predict_batch", input_df)

\* predict_batch: predictions = self.pipeline.predict(input_df)
BatchInvoke(c) ==
    /\ calls[c].op = "predict_batch"
    /\ InvokePredict(c, "Error in batch prediction")

\* predict_batch: prediction_probas = self.pipeline.predict_proba(input_df);
\* build and return results_df.
BatchProba(c) ==
    /\ calls[c].op = "predict_batch"
    /\ InvokeProba(c, "Error in batch prediction")

\* The call is over: the caller has the return value or the exception, and the
\* frame with its locals is gone.
Return(c) ==
    /\ calls[c].pc \in {"returned", "raised"}
    /\ calls' = [calls EXCEPT ![c] = Idle]
    /\ UNCHANGED <<pipeline, pipeline_path, predictor, loadError,
                   loadAttempts>>

\* The predictor used directly: no request is with the endpoint.
Next ==
    \/ \E onDisk \in DiskContents : Construct(onDisk) /\ UNCHANGED http
    \/ \E c \in Callers, input_data \in Rows :
          PredictEnter(c, input_data) /\ UNCHANGED http
    \/ \E c \in Callers : PredictInvoke(c) /\ UNCHANGED http
    \/ \E c \in Callers : PredictProba(c) /\ UNCHANGED http
    \/ \E c \in Callers, input_df \in Tables :
          BatchEnter(c, input_df) /\ UNCHANGED http
    \/ \E c \in Callers : BatchInvoke(c) /\ UNCHANGED http
    \/ \E c \in Callers : BatchProba(c) /\ UNCHANGED http
    \/ \E c \in Callers : Return(c) /\ UNCHANGED http

Spec == Init /\ [][Next]_vars

----------------------------------------------------------------------------
\* The result contract over every answer a pipeline can give: the predictor
\* after a successful load of a stub that answers class index cls and
\* probability vector <<p0, p1>> for the rows that hold 0 (and class index 0,
\* vector <<82, 18>> for the others), and one caller using it.

ProbLevels == {0, 18, 30, 50, 70, 82, 100}

StubFor(cls, p0, p1) ==
    [name |-> "stub", rejectsMissing |-> FALSE, rejectsExtra |-> FALSE,
     rejectsEmpty |-> FALSE, rejectsValues |-> {}, hasProba |-> TRUE,
     exc |-> "ValueError",
     out |-> [v \in Values |->
                IF v = 0 THEN [c |-> cls, p |-> <<p0, p1>>]
                ELSE [c |-> 0, p |-> <<82, 18>>]]]

FormatStubs ==
    {StubFor(cls, p0, p1) : cls \in {0, 1}, p0 \in ProbLevels, p1 \in ProbLevels}

\* The state the constructor leaves when joblib.load returned one of the stubs.
InitFormat ==
    /\ http = [c \in Callers |-> NoRequest]
    /\ pipeline \in FormatStubs
    /\ pipeline_path = DefaultPath
    /\ predictor = "bound"
    /\ loadError = "none"
    /\ loadAttempts = 1
    /\ calls = [c \in Callers |-> Idle]

FormatCaller == CHOOSE c \in Callers : TRUE

NextFormat ==
    \/ \E input_data \in Rows :
          PredictEnter(FormatCaller, input_data) /\ UNCHANGED http
    \/ PredictInvoke(FormatCaller) /\ UNCHANGED http
    \/ PredictProba(FormatCaller) /\ UNCHANGED http
    \/ \E input_df \in Tables :
          BatchEnter(FormatCaller, input_df) /\ UNCHANGED http
    \/ BatchInvoke(FormatCaller) /\ UNCHANGED http
    \/ BatchProba(FormatCaller) /\ UNCHANGED http
    \/ Return(FormatCaller) /\ UNCHANGED http

SpecFormat == InitFormat /\ [][NextFormat]_vars

----------------------------------------------------------------------------
\* The /predict/batch endpoint (src/src/api.py, predict_batch): one uploaded
\* file per request, answered with a JSON body or with the status code and
\* detail of the HTTPException that leaves the handler.

\* Names of uploaded files, split at their dots.
Filenames ==
    {<<"data", ".csv">>, <<"data", ".txt">>, <<"data", ".csv", ".bak">>,
     <<"DATA", ".CSV">>}

\* file.filename.endswith('.csv')
EndsWithCsv(filename) == filename[Len(filename)] = ".csv"

\* Uploaded contents: bytes that are not UTF-8, a file with nothing in it, or
\* CSV text with a header line and the rows of a table (possibly none).
Bodies ==
    {[kind |-> "undecodable", table |-> <<>>],
     [kind |-> "blank", table |-> <<>>]}
        \cup {[kind |-> "csv", table |-> t] : t \in Tables}

\* contents.decode('utf-8') and pd.read_csv: the exception raised, "none" when
\* a DataFrame is returned.
ReadCsvRaises(body) ==
    IF body.kind = "undecodable" THEN "UnicodeDecodeError"
    ELSE IF body.kind = "blank" THEN "EmptyDataError"
    ELSE "none"

\* df.empty
DfEmpty(df) == Len(df) = 0

\* HTTPException(status_code, detail), an Exception.
HTTPException(status_code, detail) ==
    [kind |-> "HTTPException", status_code |-> status_code, detail |-> detail]

\* Any other exception e raised inside the handler's try block.
OtherException(e) == [kind |-> e, status_code |-> 0, detail |-> <<e>>]

\* str(e)
Str(e) ==
    IF e.kind = "HTTPException" THEN <<e.status_code>> \o e.detail ELSE e.detail

\* The handler's `except Exception as e`: whatever was raised inside the try
\* block, the HTTPExceptions raised there included, leaves the handler as
\* HTTPException(500, "Error processing batch prediction: " + str(e)).
ExceptException(e) ==
    HTTPException(500, <<"Error processing batch prediction">> \o Str(e))

\* The request is answered with the HTTPException that left the handler.
Answered(req, e) ==
    LET out == ExceptException(e) IN
    [req EXCEPT !.pc = "responded", !.caught = e.kind,
                !.status_code = out.status_code, !.detail = out.detail]

\* A client uploads a file; the application exists only when the import of
\* the predictor succeeded.
ApiReceive(c, filename, body) ==
    /\ predictor = "bound"
    /\ http[c].pc = "none"
    /\ calls[c].pc = "idle"
    /\ http' = [http EXCEPT ![c] =
                   [NoRequest EXCEPT !.pc = "received", !.filename = filename,
                                     !.body = body]]
    /\ UNCHANGED <<pipeline, pipeline_path, predictor, loadError,
                   loadAttempts, calls>>

\* if not file.filename.endswith('.csv'): raise HTTPException(400, ...);
\* otherwise contents = await file.read()
ApiCheckFileType(c) ==
    /\ http[c].pc = "received"
    /\ IF ~EndsWithCsv(http[c].filename)
       THEN http' = [http EXCEPT ![c] =
                        Answered(@, HTTPException(400,
                                    <<"Only CSV files are supported">>))]
       ELSE http' = [http EXCEPT ![c].pc = "read"]
    /\ UNCHANGED <<pipeline, pipeline_path, predictor, loadError,
                   loadAttempts, calls>>

\* df = pd.read_csv(...); if df.empty: raise HTTPException(400, ...);
\* results_df = predictor.predict_batch(df), entered.
ApiReadAndCall(c) ==
    /\ http[c].pc = "read"
    /\ IF ReadCsvRaises(http[c].body) # "none"
       THEN /\ http' = [http EXCEPT ![c] =
                          Answered(@, OtherException(ReadCsvRaises(http[c].body)))]
            /\ UNCHANGED <<pipeline, pipeline_path, predictor, loadError,
                           loadAttempts, calls>>
       ELSE IF DfEmpty(http[c].body.table)
       THEN /\ http' = [http EXCEPT ![c] =
                          Answered(@, HTTPException(400,
                                      <<"Uploaded file is empty">>))]
            /\ UNCHANGED <<pipeline, pipeline_path, predictor, loadError,
                           loadAttempts, calls>>
       ELSE /\ http' = [http EXCEPT ![c].pc = "predicting", ![c].called = TRUE]
            /\ BatchEnter(c, http[c].body.table)

\* predictor.predict_batch(df) has returned: results_df.to_dict('records') and
\* the JSON answer (status 200).
ApiAnswerResults(c) ==
    /\ http[c].pc = "predicting"
    /\ calls[c].pc = "returned"
    /\ http' = [http EXCEPT ![c].pc = "responded", ![c].status_code = 200,
                            ![c].total_samples = Len(calls[c].result),
                            ![c].predictions = calls[c].result]
    /\ calls' = [calls EXCEPT ![c] = Idle]
    /\ UNCHANGED <<pipeline, pipeline_path, predictor, loadError, loadAttempts>>

\* predictor.predict_batch(df) has raised: the handler's except clause.
ApiAnswerFailure(c) ==
    /\ http[c].pc = "predicting"
    /\ calls[c].pc = "raised"
    /\ http' = [http EXCEPT ![c] = Answered(@, OtherException(calls[c].error))]
    /\ calls' = [calls EXCEPT ![c] = Idle]
    /\ UNCHANGED <<pipeline, pipeline_path, predictor, loadError, loadAttempts>>

\* The client has its answer; it may send another request.
ApiDone(c) ==
    /\ http[c].pc = "responded"
    /\ http' = [http EXCEPT ![c] = NoRequest]
    /\ UNCHANGED <<pipeline, pipeline_path, predictor, loadError,
                   loadAttempts, calls>>

\* The one client of the endpoint.
ApiClient == CHOOSE c \in Callers : TRUE

\* The service behind its /predict/batch endpoint.
NextApi ==
    \/ \E onDisk \in DiskContents : Construct(onDisk) /\ UNCHANGED http
    \/ \E filename \in Filenames, body \in Bodies :
          ApiReceive(ApiClient, filename, body)
    \/ ApiCheckFileType(ApiClient)
    \/ ApiReadAndCall(ApiClient)
    \/ BatchInvoke(ApiClient) /\ UNCHANGED http
    \/ BatchProba(ApiClient) /\ UNCHANGED http
    \/ ApiAnswerResults(ApiClient)
    \/ ApiAnswerFailure(ApiClient)
    \/ ApiDone(ApiClient)

SpecApi == Init /\ [][NextApi]_vars

----------------------------------------------------------------------------
\* Vocabulary of the properties.

Finished(c) == calls[c].pc \in {"returned", "raised"}
PastPredict(c) == calls[c].pc \in {"predicted", "returned", "raised"}

\* The exceptions the loaded pipeline can raise on a table.
PipelineExceptions(df) ==
    {PipelinePredict(pipeline, df).exc,
     PipelinePredictProba(pipeline, df).exc} \ {"none"}

\* The error kinds the design document names; the program defines none of them.
TaxonomyErrors ==
    {"ValidationError", "PipelineLoadError", "ServiceUnavailableError",
     "PipelineInferenceError"}

----------------------------------------------------------------------------
\* C1 as stated: a finished call whose record or table has a row that misses a
\* required field or holds an unknown one failed with ValidationError and
\* invoked neither predict nor predict_proba of the pipeline.
C1_ValidationShortCircuits ==
    \A c \in Callers :
        (Finished(c) /\ Malformed(calls[c].df)) =>
            /\ calls[c].pc = "raised"
            /\ calls[c].error = "ValidationError"
            /\ calls[c].nPredict = 0
            /\ calls[c].nProba = 0

\* C1 amended: a record or table with a missing or unknown field is not
\* validated; it is handed to the pipeline, whose predict is invoked exactly
\* once; the call never fails with ValidationError, it fails exactly when the
\* pipeline raises, with the pipeline's own exception, and otherwise returns.
C1_MalformedReachesPipeline ==
    \A c \in Callers :
        (PastPredict(c) /\ Malformed(calls[c].df)) =>
            /\ calls[c].nPredict = 1
            /\ calls[c].error # "ValidationError"
            /\ calls[c].pc = "raised" =>
                  calls[c].error \in PipelineExceptions(calls[c].df)
            /\ Finished(c) =>
                  (calls[c].pc = "raised" <=>
                      PipelineExceptions(calls[c].df) # {})

\* C1 witness: a call on a row with a field outside the schema has returned a
\* result, and another on a row without a required field has raised.
C1_Witness ==
    \E c, d \in Callers :
        /\ calls[c].pc = "returned"
        /\ \E i \in 1..Len(calls[c].df) : ExtraField(calls[c].df[i])
        /\ calls[c].result # <<>>
        /\ calls[d].pc = "raised"
        /\ \E i \in 1..Len(calls[d].df) : MissingField(calls[d].df[i])

----------------------------------------------------------------------------
\* C2 as stated: outside LOADED every call has failed with
\* ServiceUnavailableError without invoking the pipeline, and a failed load
\* has failed with PipelineLoadError.
C2_UnavailableErrors ==
    /\ State # "LOADED" =>
          \A c \in Callers :
              calls[c].pc # "idle" =>
                  /\ calls[c].pc = "raised"
                  /\ calls[c].error = "ServiceUnavailableError"
                  /\ calls[c].nPredict = 0
                  /\ calls[c].nProba = 0
    /\ State = "FAILED" => loadError = "PipelineLoadError"

\* C2 amended: outside LOADED no predict or predict_batch call runs at all and
\* the pipeline is never invoked: a failed load re-raises joblib's own
\* exception (none of the design document's error kinds) out of the
\* constructor, and the global predictor is never bound.
C2_NoCallOutsideLoaded ==
    State # "LOADED" =>
        /\ predictor # "bound"
        /\ \A c \in Callers : calls[c] = Idle
        /\ State = "FAILED" =>
              /\ predictor = "import_failed"
              /\ loadError \in {"FileNotFoundError", "UnpicklingError"}
              /\ loadError \notin TaxonomyErrors

\* C2 witness: the load from a path with no file has failed.
C2_Witness ==
    /\ State = "FAILED"
    /\ loadError = "FileNotFoundError"
    /\ loadAttempts = 1

----------------------------------------------------------------------------
\* C3: the load is attempted exactly once and before any call reaches the
\* pipeline; the lifecycle only moves from UNLOADED to LOADED or to FAILED,
\* FAILED is never left, and a loaded pipeline is never reloaded or replaced.
C3_LoadOnceThenFixed ==
    /\ [](/\ loadAttempts <= 1
          /\ State # "UNLOADED" <=> loadAttempts = 1
          /\ \A c \in Callers :
                (calls[c].nPredict + calls[c].nProba > 0 \/ calls[c].pc # "idle")
                    => State = "LOADED" /\ loadAttempts = 1)
    /\ [][/\ State' # State =>
                /\ State = "UNLOADED"
                /\ State' \in {"LOADED", "FAILED"}
          /\ State = "LOADED" => pipeline' = pipeline
          /\ loadAttempts' # loadAttempts => State = "UNLOADED"]_vars

\* C3 witness: after the one load a call has reached the pipeline.
C3_Witness ==
    /\ State = "LOADED"
    /\ loadAttempts = 1
    /\ \E c \in Callers : calls[c].nPredict = 1 /\ calls[c].pc = "predicted"

----------------------------------------------------------------------------
\* C4 as stated: a call in which the pipeline raised has failed with
\* PipelineInferenceError.
C4_TypedInferenceError ==
    \A c \in Callers :
        calls[c].pc = "raised" =>
            /\ calls[c].error = "PipelineInferenceError"
            /\ calls[c].logged # "none"
            /\ State = "LOADED"

\* C4 amended: when the pipeline raises inside a call, the call logs a
\* diagnostic message and re-raises the pipeline's own exception unchanged (no
\* PipelineInferenceError, nothing swallowed, no second invocation), returns
\* nothing, and the service stays LOADED: a call entered afterwards on input
\* the pipeline accepts returns its result.
C4_PipelineErrorReRaised ==
    \A c \in Callers :
        /\ calls[c].pc = "raised" =>
              /\ calls[c].error \in PipelineExceptions(calls[c].df)
              /\ calls[c].error \notin TaxonomyErrors
              /\ calls[c].logged =
                    (IF calls[c].op = "predict" THEN "Error making prediction"
                     ELSE "Error in batch prediction")
              /\ calls[c].result = <<>>
              /\ calls[c].nPredict = 1
              /\ calls[c].nProba <= 1
              /\ State = "LOADED"
        /\ (Finished(c) /\ PipelineExceptions(calls[c].df) # {}) =>
              calls[c].pc = "raised"
        /\ (Finished(c) /\ calls[c].afterFailure
                /\ PipelineExceptions(calls[c].df) = {}) =>
              /\ calls[c].pc = "returned"
              /\ calls[c].error = "none"
              /\ Len(calls[c].result) = Len(calls[c].df)

\* C4 witness: one call has failed on the pipeline raising and a call entered
\* after that failure has returned a result.
C4_Witness ==
    \E c, d \in Callers :
        /\ calls[d].pc = "raised"
        /\ calls[d].error = "ValueError"
        /\ calls[c].pc = "returned"
        /\ calls[c].afterFailure
        /\ calls[c].result # <<>>

----------------------------------------------------------------------------
\* C5 as stated: predict_batch on a table of zero rows has failed with
\* ValidationError without invoking the pipeline.
C5_EmptyTableRefused ==
    \A c \in Callers :
        (Finished(c) /\ calls[c].op = "predict_batch" /\ calls[c].df = <<>>) =>
            /\ calls[c].pc = "raised"
            /\ calls[c].error = "ValidationError"
            /\ calls[c].nPredict = 0
            /\ calls[c].nProba = 0

\* C5 amended: predict_batch makes no check of its own on a table of zero
\* rows: it invokes the pipeline's predict once on the empty table, never
\* fails with ValidationError, fails exactly when the pipeline raises on the
\* empty table (with the pipeline's exception) and otherwise returns an empty
\* result table.
C5_EmptyTableReachesPipeline ==
    \A c \in Callers :
        (PastPredict(c) /\ calls[c].op = "predict_batch" /\ calls[c].df = <<>>) =>
            /\ calls[c].nPredict = 1
            /\ calls[c].error # "ValidationError"
            /\ calls[c].pc = "raised" =>
                  /\ calls[c].error \in PipelineExceptions(<<>>)
                  /\ calls[c].nProba <= 1
            /\ calls[c].pc = "returned" =>
                  /\ PipelineExceptions(<<>>) = {}
                  /\ calls[c].nProba = 1
                  /\ calls[c].result = <<>>

\* C5 witness: predict_batch on the empty table has returned (an empty table)
\* after invoking the pipeline.
C5_Witness ==
    \E c \in Callers :
        /\ calls[c].op = "predict_batch"
        /\ calls[c].df = <<>>
        /\ calls[c].pc = "returned"
        /\ calls[c].nPredict = 1

----------------------------------------------------------------------------
\* C6: a predict_batch call either returns a result row for every input row or
\* fails and returns no row at all, wherever it fails: also when the pipeline's
\* predict has succeeded and predict_proba then raises.
C6_BatchAllOrNothing ==
    \A c \in Callers :
        calls[c].op = "predict_batch" =>
            /\ calls[c].pc = "returned" =>
                  /\ Len(calls[c].result) = Len(calls[c].df)
                  /\ calls[c].error = "none"
            /\ calls[c].pc # "returned" => calls[c].result = <<>>
            /\ calls[c].pc = "raised" => calls[c].error # "none"

\* C6 witness: a batch call on a non-empty table has failed in predict_proba
\* after predict had returned the class index of every row.
C6_Witness ==
    \E c \in Callers :
        /\ calls[c].op = "predict_batch"
        /\ calls[c].pc = "raised"
        /\ Len(calls[c].df) >= 2
        /\ Len(calls[c].predictions) = Len(calls[c].df)
        /\ calls[c].nPredict = 1
        /\ calls[c].nProba = 1

----------------------------------------------------------------------------
----------------------------------------------------------------------------
\* C8: a predict_batch call invokes the pipeline's predict once and its
\* predict_proba once, each on the whole table, whatever the number of rows:
\* never once per row.  (predict_proba is not reached when predict raised.)
C8_BatchInvokesOnce ==
    \A c \in Callers :
        calls[c].op = "predict_batch" =>
            /\ calls[c].nPredict <= 1
            /\ calls[c].nProba <= 1
            /\ PastPredict(c) => calls[c].nPredict = 1
            /\ calls[c].pc = "predicted" =>
                  /\ Len(calls[c].predictions) = Len(calls[c].df)
                  /\ calls[c].nProba = 0
            /\ calls[c].pc = "returned" =>
                  /\ calls[c].nProba = 1
                  /\ Len(calls[c].probas) = Len(calls[c].df)

\* C8 witness: a batch of the longest table has returned after one predict and
\* one predict_proba.
C8_Witness ==
    \E c \in Callers :
        /\ calls[c].op = "predict_batch"
        /\ calls[c].pc = "returned"
        /\ Len(calls[c].df) = MaxRows
        /\ calls[c].nPredict = 1
        /\ calls[c].nProba = 1

----------------------------------------------------------------------------
\* The result contract, stated on one result r for class index cls and
\* probability vector p.
MeetsContract(r, cls, p) ==
    /\ r.prediction = cls
    /\ r.prediction_label = "yes" <=> cls = 1
    /\ r.prediction_label = "no" <=> cls # 1
    /\ r.probability_no = p[1]
    /\ r.probability_yes = p[2]
    /\ r.confidence >= p[1]
    /\ r.confidence >= p[2]
    /\ r.confidence \in {p[1], p[2]}

\* C9 (under SpecFormat, which ranges over the class indices and probability
\* vectors): for the class index c in {0,1} and the vector [p0, p1] the
\* pipeline returned, the result of predict, and every row's result of
\* predict_batch, has prediction c, label "yes" exactly when c = 1 and "no"
\* otherwise, probability_no p0, probability_yes p1 and confidence max(p0, p1).
C9_ResultContract ==
    \A c \in Callers :
        calls[c].pc = "returned" =>
            /\ calls[c].op = "predict" => Len(calls[c].result) = 1
            /\ \A i \in 1..Len(calls[c].result) :
                  /\ calls[c].predictions[i] \in {0, 1}
                  /\ MeetsContract(calls[c].result[i], calls[c].predictions[i],
                                   calls[c].probas[i])

\* C9 witness: predict has returned label "yes" with confidence 0.7 for class
\* index 1 and vector [0.3, 0.7].
C9_Witness ==
    \E c \in Callers :
        /\ calls[c].op = "predict"
        /\ calls[c].pc = "returned"
        /\ calls[c].predictions = <<1>>
        /\ calls[c].probas = <<(<<30, 70>>)>>
        /\ calls[c].result =
              <<[prediction |-> 1, prediction_label |-> "yes",
                 probability_no |-> 30, probability_yes |-> 70,
                 confidence |-> 70]>>

----------------------------------------------------------------------------
\* What a call returns or raises when it runs alone, from entry to exit, on the
\* loaded artifact art.
RunAlone(art, op, df) ==
    LET r1 == PipelinePredict(art, df)
        r2 == PipelinePredictProba(art, df)
    IN  IF r1.exc # "none"
        THEN [pc |-> "raised", error |-> r1.exc, result |-> <<>>]
        ELSE IF r2.exc # "none"
        THEN [pc |-> "raised", error |-> r2.exc, result |-> <<>>]
        ELSE [pc |-> "returned", error |-> "none",
              result |-> IF op = "predict"
                         THEN <<PredictResult(r1.value[1], r2.value[1])>>
                         ELSE BatchResults(df, r1.value, r2.value)]

Outcome(c) ==
    [pc |-> calls[c].pc, error |-> calls[c].error, result |-> calls[c].result]

\* C10: once LOADED, under every interleaving of concurrent predict and
\* predict_batch calls, no step changes the handle (the loaded pipeline and
\* its path stay as they were after the load), and every call ends as it would
\* have ended running alone on its own input.
C10_ConcurrentCallsIndependent ==
    /\ [](\A c \in Callers :
             Finished(c) =>
                 Outcome(c) = RunAlone(pipeline, calls[c].op, calls[c].df))
    /\ [][State = "LOADED" =>
             /\ pipeline' = pipeline
             /\ pipeline_path' = pipeline_path
             /\ predictor' = predictor]_vars

\* C10 witness: while one call is between its two pipeline invocations,
\* another call on a different input has entered and returned its result.
C10_Witness ==
    \E c, d \in Callers :
        /\ c # d
        /\ calls[c].pc = "predicted"
        /\ calls[d].pc = "returned"
        /\ calls[d].afterFailure = FALSE
        /\ calls[c].df # calls[d].df
        /\ Len(calls[c].df) = Len(calls[d].df)
        /\ calls[d].result # <<>>

----------------------------------------------------------------------------
\* C11 (under SpecApi): a request to /predict/batch whose file name does not
\* end in .csv, or whose file parses to an empty table, is answered with
\* status 400 without predict_batch being called; status 500 is answered only
\* when reading the file or the prediction itself failed.
C11_BadUploadsAnswered400 ==
    \A c \in Callers :
        http[c].pc = "responded" =>
            /\ (\/ ~EndsWithCsv(http[c].filename)
                \/ /\ ReadCsvRaises(http[c].body) = "none"
                   /\ DfEmpty(http[c].body.table)) =>
                  /\ http[c].status_code = 400
                  /\ ~http[c].called
            /\ http[c].status_code = 500 =>
                  \/ /\ EndsWithCsv(http[c].filename)
                     /\ ReadCsvRaises(http[c].body) # "none"
                  \/ /\ http[c].called
                     /\ http[c].caught \notin {"none", "HTTPException"}

====
